---- MODULE Spec2Model ----
(***************************************************************************)
(* A model of repomix_wx.py: the file-set resolution logic of RepomixFrame *)
(* (discovery, ignore patterns, exact exclusions), the command             *)
(* synthesizer, and the state cache.                                       *)
(*                                                                         *)
(* Python strings are TLA+ strings (sequences of characters); a character  *)
(* is a string of length 1.  A pathlib.Path is modelled by its POSIX       *)
(* string: every Path the program holds is a normalised relative path, for *)
(* which Path(str(p)) = p.                                                 *)
(***************************************************************************)
EXTENDS Integers, Sequences, FiniteSets, TLC

(***************************************************************************)
(* Strings                                                                 *)
(***************************************************************************)

\* The printable ASCII characters in code-point order: 32 (space) to 95, and
\* 97 to 126.  Code point 96, the backquote, cannot be written in a TLA+
\* string and is outside the alphabet of the model.
AsciiLow == " !\"#$%&'()*+,-./0123456789:;<=>?@ABCDEFGHIJKLMNOPQRSTUVWXYZ[\\]^_"

AsciiHigh == "abcdefghijklmnopqrstuvwxyz{|}~"

CharAt(s, i) == SubSeq(s, i, i)

IndexIn(s, c) == CHOOSE i \in 1..Len(s) : CharAt(s, i) = c

Chars(s) == { CharAt(s, i) : i \in 1..Len(s) }

AsciiLowChars == Chars(AsciiLow)

UpperCaseChars == Chars("ABCDEFGHIJKLMNOPQRSTUVWXYZ")

\* ord(c); the control characters of the model are tab, newline and return.
Ord(c) ==
    IF c = "\t" THEN 9
    ELSE IF c = "\n" THEN 10
    ELSE IF c = "\r" THEN 13
    ELSE IF c \in AsciiLowChars THEN 31 + IndexIn(AsciiLow, c)
    ELSE 96 + IndexIn(AsciiHigh, c)

IsSpace(c) == c \in {" ", "\t", "\n", "\r"}

RECURSIVE LStrip(_)
LStrip(s) == IF s # "" /\ IsSpace(Head(s)) THEN LStrip(Tail(s)) ELSE s

RECURSIVE RStrip(_)
RStrip(s) ==
    IF s # "" /\ IsSpace(CharAt(s, Len(s)))
    THEN RStrip(SubSeq(s, 1, Len(s) - 1))
    ELSE s

\* str.strip()
Strip(s) == RStrip(LStrip(s))

\* str.lower() on one character
LowerChar(c) ==
    IF c \in UpperCaseChars
    THEN CharAt(AsciiHigh, Ord(c) + 32 - 96)
    ELSE c

RECURSIVE Lower(_)
Lower(s) == IF s = "" THEN "" ELSE LowerChar(Head(s)) \o Lower(Tail(s))

\* str.replace(a, b) for a single character a
RECURSIVE Replace(_, _, _)
Replace(s, a, b) ==
    IF s = "" THEN ""
    ELSE (IF Head(s) = a THEN b ELSE Head(s)) \o Replace(Tail(s), a, b)

StartsWith(s, p) == Len(p) <= Len(s) /\ SubSeq(s, 1, Len(p)) = p

EndsWith(s, p) == Len(p) <= Len(s) /\ SubSeq(s, Len(s) - Len(p) + 1, Len(s)) = p

\* q in s
Contains(s, q) == \E i \in 1..(Len(s) - Len(q) + 1) : SubSeq(s, i, i + Len(q) - 1) = q

\* str.removeprefix(p)
RemovePrefix(s, p) == IF StartsWith(s, p) THEN SubSeq(s, Len(p) + 1, Len(s)) ELSE s

\* sep.join(items)
RECURSIVE Join(_, _)
Join(items, sep) ==
    IF items = <<>> THEN ""
    ELSE IF Len(items) = 1 THEN items[1]
    ELSE items[1] \o sep \o Join(Tail(items), sep)

\* s < t for Python strings (code-point order)
RECURSIVE StrLess(_, _)
StrLess(s, t) ==
    IF t = "" THEN FALSE
    ELSE IF s = "" THEN TRUE
    ELSE IF Head(s) = Head(t) THEN StrLess(Tail(s), Tail(t))
    ELSE Ord(Head(s)) < Ord(Head(t))

(***************************************************************************)
(* Pattern matching helpers                                                *)
(***************************************************************************)

\* _normalize_glob
NormalizeGlob(pat) ==
    LET s1 == Replace(Strip(pat), "\\", "/")
        s2 == RemovePrefix(s1, "./")
    IN  IF Len(s2) > 1 /\ EndsWith(s2, "/") THEN SubSeq(s2, 1, Len(s2) - 1) ELSE s2

\* fnmatch.translate: the index of the "]" closing the bracket expression
\* opened at pat[i], or 0 when it is never closed ("[" is then a literal).
RECURSIVE FindClose(_, _)
FindClose(pat, j) ==
    IF j > Len(pat) THEN 0
    ELSE IF CharAt(pat, j) = "]" THEN j
    ELSE FindClose(pat, j + 1)

ClassEnd(pat, i) ==
    LET j1 == IF i + 1 <= Len(pat) /\ CharAt(pat, i + 1) = "!" THEN i + 2 ELSE i + 1
        j2 == IF j1 <= Len(pat) /\ CharAt(pat, j1) = "]" THEN j1 + 1 ELSE j1
    IN  FindClose(pat, j2)

\* The characters a bracket body (without a leading "!") stands for: x-y is
\* the range of code points from x to y (empty when x > y), a hyphen that
\* is first or last is a literal.
RECURSIVE ClassHas(_, _)
ClassHas(stuff, c) ==
    IF stuff = "" THEN FALSE
    ELSE IF Len(stuff) >= 3 /\ CharAt(stuff, 2) = "-"
    THEN (Ord(CharAt(stuff, 1)) <= Ord(c) /\ Ord(c) <= Ord(CharAt(stuff, 3)))
         \/ ClassHas(SubSeq(stuff, 4, Len(stuff)), c)
    ELSE Head(stuff) = c \/ ClassHas(Tail(stuff), c)

InClass(stuff, c) ==
    IF Head(stuff) = "!" THEN ~ClassHas(Tail(stuff), c) ELSE ClassHas(stuff, c)

\* re.match of fnmatch.translate(pat) against name, from name[i] and pat[j]:
\* "*" is ".*" and "?" is "." under DOTALL, so both cross "/".
RECURSIVE FnMatchFrom(_, _, _, _)
FnMatchFrom(name, i, pat, j) ==
    IF j > Len(pat) THEN i > Len(name)
    ELSE LET c == CharAt(pat, j) IN
         IF c = "*"
         THEN FnMatchFrom(name, i, pat, j + 1)
              \/ (i <= Len(name) /\ FnMatchFrom(name, i + 1, pat, j))
         ELSE IF c = "?"
         THEN i <= Len(name) /\ FnMatchFrom(name, i + 1, pat, j + 1)
         ELSE IF c = "[" /\ ClassEnd(pat, j) # 0
         THEN LET k == ClassEnd(pat, j) IN
              /\ i <= Len(name)
              /\ InClass(SubSeq(pat, j + 1, k - 1), CharAt(name, i))
              /\ FnMatchFrom(name, i + 1, pat, k + 1)
         ELSE /\ i <= Len(name)
              /\ CharAt(name, i) = c
              /\ FnMatchFrom(name, i + 1, pat, j + 1)

\* A glob match in which "*" stops at "/".
RECURSIVE FnMatchSegment(_, _, _, _)
FnMatchSegment(name, i, pat, j) ==
    IF j > Len(pat) THEN i > Len(name)
    ELSE IF CharAt(pat, j) = "*"
    THEN FnMatchSegment(name, i, pat, j + 1)
         \/ (i <= Len(name) /\ CharAt(name, i) # "/" /\ FnMatchSegment(name, i + 1, pat, j))
    ELSE /\ i <= Len(name)
         /\ (CharAt(pat, j) = "?" \/ CharAt(name, i) = CharAt(pat, j))
         /\ FnMatchSegment(name, i + 1, pat, j + 1)

FnMatchWithinSegments(name, pat) == FnMatchSegment(name, 1, pat, 1)

\* fnmatch.fnmatch(name, pat); os.path.normcase is the identity on POSIX.
FnMatch(name, pat) == FnMatchFrom(name, 1, pat, 1)

\* A matcher iteration without the directory-prefix rule.
PatternHitsNoPrefix(ps, raw) ==
    LET pat == NormalizeGlob(raw) IN
    /\ pat # ""
    /\ (ps = pat \/ FnMatchFrom(ps, 1, pat, 1))

\* One iteration of the loop of _matches_patterns: does raw decide "True"?
PatternHits(ps, raw) ==
    LET pat == NormalizeGlob(raw) IN
    /\ pat # ""
    /\ \/ ps = pat
       \/ FnMatch(ps, pat)
       \/ (~Contains(pat, "/") /\ StartsWith(ps, pat \o "/"))

\* _matches_patterns: the loop over the patterns, returning on the first hit.
RECURSIVE MatchesLoop(_, _)
MatchesLoop(ps, patterns) ==
    IF patterns = <<>> THEN FALSE
    ELSE IF PatternHits(ps, Head(patterns)) THEN TRUE
    ELSE MatchesLoop(ps, Tail(patterns))

MatchesPatterns(path_str, patterns) ==
    MatchesLoop(Replace(path_str, "\\", "/"), patterns)

(***************************************************************************)
(* Paths and the file system                                               *)
(***************************************************************************)

\* IGNORED_DIRS_DEFAULT
IGNORED_DIRS_DEFAULT ==
    { ".git", ".hg", ".svn", ".idea", ".vscode", "node_modules", "dist", "build",
      "__pycache__", ".venv", ".gitignore", "uv.lock" }

\* The suffixes discover_files skips.
BinarySuffixes ==
    { ".png", ".jpg", ".jpeg", ".gif", ".webp", ".pdf", ".zip", ".7z", ".tar", ".gz", ".bz2" }

\* The directories the user can pick; each is absolute and free of symbolic
\* links, so that Path(d).resolve() is Path(d).
Roots == { "/r1", "/r2" }

\* self.root_path is None
NoRoot == ""

\* The directories of the file system: the ones the user picks, and one
\* that holds several of the default names.
Directories == Roots \cup { "/r3" }

\* The files below each directory, relative to it.  The file system does
\* not change while the program runs.
FilesUnder(root) ==
    IF root = "/r1" THEN { "a.py", "b.png", ".git/config" }
    ELSE IF root = "/r2" THEN { "a.py", "dist/x.js" }
    ELSE IF root = "/r3" THEN { "a.py", ".git/config", "dist/x.js", "node_modules/m.js" }
    ELSE { }

\* (root / d).exists()
EntryExists(root, d) ==
    \E f \in FilesUnder(root) : f = d \/ StartsWith(f, d \o "/")

\* s.split("/"), cur being the part read so far
RECURSIVE Split(_, _)
Split(s, cur) ==
    IF s = "" THEN <<cur>>
    ELSE IF Head(s) = "/" THEN <<cur>> \o Split(Tail(s), "")
    ELSE Split(Tail(s), cur \o Head(s))

\* Path(s).parts for a relative path: empty parts and "." are dropped
Parts(s) == SelectSeq(Split(s, ""), LAMBDA x : x # "" /\ x # ".")

\* Path(s).name
PathName(s) == IF Parts(s) = <<>> THEN "" ELSE Parts(s)[Len(Parts(s))]

\* Path(s).stem
RECURSIVE LastDot(_, _)
LastDot(name, i) ==
    IF i = 0 THEN 0
    ELSE IF CharAt(name, i) = "." THEN i
    ELSE LastDot(name, i - 1)

PathStem(s) ==
    LET name == PathName(s)
        i == LastDot(name, Len(name))
    IN  IF 1 < i /\ i < Len(name) THEN SubSeq(name, 1, i - 1) ELSE name

\* Path.__lt__ on POSIX: the parts are compared as lists of strings.
RECURSIVE PartsLess(_, _)
PartsLess(a, b) ==
    IF b = <<>> THEN FALSE
    ELSE IF a = <<>> THEN TRUE
    ELSE IF Head(a) = Head(b) THEN PartsLess(Tail(a), Tail(b))
    ELSE StrLess(Head(a), Head(b))

PathLess(p, q) == PartsLess(Parts(p), Parts(q))

\* sorted(paths)
RECURSIVE SortedPaths(_)
SortedPaths(S) ==
    IF S = {} THEN <<>>
    ELSE LET m == CHOOSE x \in S : \A y \in S \ {x} : PathLess(x, y)
         IN  <<m>> \o SortedPaths(S \ {m})

\* sorted(strings)
RECURSIVE SortedStrings(_)
SortedStrings(S) ==
    IF S = {} THEN <<>>
    ELSE LET m == CHOOSE x \in S : \A y \in S \ {x} : StrLess(x, y)
         IN  <<m>> \o SortedStrings(S \ {m})

SeqToSet(q) == { q[i] : i \in 1..Len(q) }

\* A walk that takes no file for a binary.
NeverBinary(name) == FALSE

\* name.endswith((".png", ".jpg", ...))
HasBinarySuffix(name) == \E suf \in BinarySuffixes : EndsWith(name, suf)

\* discover_files
DiscoverFiles(root) ==
    SortedPaths({ f \in FilesUnder(root) : ~HasBinarySuffix(PathName(f)) })

(***************************************************************************)
(* The frame.  A frame state is a record of the fields of RepomixFrame and *)
(* of the values of its controls, with the cache file:                     *)
(*   root_path, all_files, visible_files, excluded_files_set,              *)
(*   ignore_patterns, ignore_defaults_optout     the attributes of 212-217 *)
(*   filter_input, output_name, style_choice, header_text,                 *)
(*   instructions_picker, cb                     values of the controls    *)
(*   ignore_patterns_box, excluded_files, cmd_preview                      *)
(*                                               contents of the widgets   *)
(*                                               ignore_patterns,          *)
(*                                               excluded_files and        *)
(*                                               cmd_preview               *)
(*   cache                                       <<>> when state.json does *)
(*                                               not exist, else <<data>>  *)
(* The list box files_list always shows visible_files: the two are only    *)
(* set together, in _reload_files_list.  dir_picker shows root_path.       *)
(***************************************************************************)

\* The check boxes in declaration order, with the key each has in the cache
\* file and the switch it stands for.
CheckBoxes ==
    << [cb |-> "cb_parsable",           key |-> "parsable",               flag |-> "--parsable-style"],
       [cb |-> "cb_compress",           key |-> "compress",               flag |-> "--compress"],
       [cb |-> "cb_line_numbers",       key |-> "line_numbers",           flag |-> "--output-show-line-numbers"],
       [cb |-> "cb_no_file_summary",    key |-> "no_file_summary",        flag |-> "--no-file-summary"],
       [cb |-> "cb_no_dir_structure",   key |-> "no_directory_structure", flag |-> "--no-directory-structure"],
       [cb |-> "cb_no_files",           key |-> "no_files",               flag |-> "--no-files"],
       [cb |-> "cb_remove_comments",    key |-> "remove_comments",        flag |-> "--remove-comments"],
       [cb |-> "cb_remove_empty",       key |-> "remove_empty",           flag |-> "--remove-empty-lines"],
       [cb |-> "cb_truncate_b64",       key |-> "truncate_b64",           flag |-> "--truncate-base64"],
       [cb |-> "cb_include_empty_dirs", key |-> "include_empty_dirs",     flag |-> "--include-empty-directories"],
       [cb |-> "cb_no_git_sort",        key |-> "no_git_sort",            flag |-> "--no-git-sort-by-changes"],
       [cb |-> "cb_include_diffs",      key |-> "include_diffs",          flag |-> "--include-diffs"],
       [cb |-> "cb_include_logs",       key |-> "include_logs",           flag |-> "--include-logs"] >>

CheckBoxNames == { CheckBoxes[i].cb : i \in 1..Len(CheckBoxes) }

FlagKeys == { CheckBoxes[i].key : i \in 1..Len(CheckBoxes) }

KeyOf(name) == CheckBoxes[CHOOSE i \in 1..Len(CheckBoxes) : CheckBoxes[i].cb = name].key

Styles == { "markdown", "plain", "xml" }

\* The check boxes as __init__ leaves them: only cb_remove_empty is ticked.
DefaultCheckBoxes == [ n \in CheckBoxNames |-> n = "cb_remove_empty" ]

(***************************************************************************)
(* Build command                                                           *)
(***************************************************************************)

\* add_flag for the check boxes from the i-th on, in declaration order
RECURSIVE AddFlags(_, _, _)
AddFlags(cmd, cb, i) ==
    IF i > Len(CheckBoxes) THEN cmd
    ELSE AddFlags(IF cb[CheckBoxes[i].cb] THEN Append(cmd, CheckBoxes[i].flag) ELSE cmd,
                  cb, i + 1)

\* cmd += ["-o", out_name] when the trimmed name is not empty
AddOutput(cmd, out_name) ==
    cmd \o (IF out_name # "" THEN <<"-o", out_name>> ELSE <<>>)

\* cmd += ["--style", style]
AddStyle(cmd, style) ==
    cmd \o (IF style # "" THEN <<"--style", style>> ELSE <<>>)

\* cmd += [option, value] when the trimmed value is not empty
AddValue(cmd, option, value) ==
    cmd \o (IF value # "" THEN <<option, value>> ELSE <<>>)

\* An --ignore argument that is added even when there are no items.
AddIgnoreAlways(cmd, ignore_items) == cmd \o <<"--ignore", Join(ignore_items, ",")>>

\* cmd += ["--ignore", ",".join(ignore_items)] when there are items
AddIgnoreItems(cmd, ignore_items) ==
    cmd \o (IF ignore_items # <<>> THEN <<"--ignore", Join(ignore_items, ",")>> ELSE <<>>)

\* _build_command
BuildCommand(S) ==
    AddIgnoreItems(
        AddValue(
            AddValue(
                AddFlags(
                    AddStyle(
                        AddOutput(<<"repomix">>,
                                  Strip(IF S.output_name # "" THEN S.output_name
                                        ELSE "repomix_output.md")),
                        IF S.style_choice # "" THEN S.style_choice ELSE "markdown"),
                    S.cb, 1),
                "--header-text", Strip(S.header_text)),
            "--instruction-file-path", Strip(S.instructions_picker)),
        S.ignore_patterns \o SortedPaths(S.excluded_files_set))

\* The characters that make _shell_quote quote (the backquote, which is
\* outside the alphabet of the model, left out).
QuoteChars == Chars(" \t\"'*$&()[]{};|<>")

\* _shell_quote
ShellQuote(s) ==
    IF s = "" \/ \E i \in 1..Len(s) : CharAt(s, i) \in QuoteChars
    THEN "\"" \o Replace(s, "\"", "\\\"") \o "\""
    ELSE s

\* The text _update_cmd_preview shows for cmd
PreviewOf(cmd) == Join([ i \in 1..Len(cmd) |-> ShellQuote(cmd[i]) ], " ")

\* _update_cmd_preview
UpdateCmdPreview(S) == [S EXCEPT !.cmd_preview = PreviewOf(BuildCommand(S))]

(***************************************************************************)
(* Rescan                                                                  *)
(***************************************************************************)

\* sorted(IGNORED_DIRS_DEFAULT)
SortedDefaults == SortedStrings(IGNORED_DIRS_DEFAULT)

\* The default names that exist directly under each directory, computed
\* once: the file system does not change
DefaultsUnder == [ r \in Directories |-> { d \in IGNORED_DIRS_DEFAULT : EntryExists(r, d) } ]

\* An auto-add that does not look at the opt-outs.
RECURSIVE EnsureLoopNoOptOut(_, _, _, _, _)
EnsureLoopNoOptOut(patterns, existing, root, optout, i) ==
    IF i > Len(SortedDefaults) THEN patterns
    ELSE LET d == SortedDefaults[i] IN
         IF d \in DefaultsUnder[root] /\ d \notin existing
         THEN EnsureLoopNoOptOut(Append(patterns, d), existing \cup {d}, root, optout, i + 1)
         ELSE EnsureLoopNoOptOut(patterns, existing, root, optout, i + 1)

\* An auto-add that does not look at the names already in the list.
RECURSIVE EnsureLoopBlind(_, _, _, _, _)
EnsureLoopBlind(patterns, existing, root, optout, i) ==
    IF i > Len(SortedDefaults) THEN patterns
    ELSE LET d == SortedDefaults[i] IN
         IF d \in DefaultsUnder[root] /\ d \notin optout
         THEN EnsureLoopBlind(Append(patterns, d), existing, root, optout, i + 1)
         ELSE EnsureLoopBlind(patterns, existing, root, optout, i + 1)

\* The loop of _ensure_default_ignores_exist from the i-th default on
RECURSIVE EnsureLoop(_, _, _, _, _)
EnsureLoop(patterns, existing, root, optout, i) ==
    IF i > Len(SortedDefaults) THEN patterns
    ELSE LET d == SortedDefaults[i] IN
         IF d \in DefaultsUnder[root] /\ d \notin existing /\ d \notin optout
         THEN EnsureLoop(Append(patterns, d), existing \cup {d}, root, optout, i + 1)
         ELSE EnsureLoop(patterns, existing, root, optout, i + 1)

\* _ensure_default_ignores_exist
EnsureDefaultIgnoresExist(S) ==
    IF S.root_path = NoRoot THEN S
    ELSE [S EXCEPT !.ignore_patterns =
              EnsureLoop(S.ignore_patterns, SeqToSet(S.ignore_patterns), S.root_path,
                         S.ignore_defaults_optout, 1)]

\* A path test that finds no path ignored.
IsIgnoredPathNever(S, p) == FALSE

\* _is_ignored_path
IsIgnoredPath(S, p) == MatchesPatterns(p, S.ignore_patterns)

\* A filter that lets every path through.
PassesAnyFilter(p, q) == TRUE

\* q in str(p).lower(), for the q of _reload_files_list

PassesFilter(p, q) == q = "" \/ Contains(Lower(p), q)

\* _reload_files_list
ReloadFilesList(S) ==
    [S EXCEPT
       !.visible_files =
           SelectSeq(S.all_files,
                     LAMBDA p : /\ ~IsIgnoredPath(S, p)
                                /\ p \notin S.excluded_files_set
                                /\ PassesFilter(p, Lower(Strip(S.filter_input)))),
       !.excluded_files =
           SelectSeq(SortedPaths(S.excluded_files_set), LAMBDA p : ~IsIgnoredPath(S, p))]

\* discover_files of every directory, computed once: the file system does
\* not change
DiscoveredUnder == [ r \in Directories |-> DiscoverFiles(r) ]

\* self._all_files = discover_files(self.root_path)
Discover(S) == [S EXCEPT !.all_files = DiscoveredUnder[S.root_path]]

\* A refresh that keeps the exclusions.
KeepExcluded(S) == S

\* self._excluded_files_set.clear()
ClearExcluded(S) == [S EXCEPT !.excluded_files_set = {}]

\* self._visible_files = list(self._all_files)
ShowAll(S) == [S EXCEPT !.visible_files = S.all_files]

\* self.ignore_patterns.Set(self._ignore_patterns)
SyncPatternsBox(S) == [S EXCEPT !.ignore_patterns_box = S.ignore_patterns]

\* on_refresh
OnRefresh(S) ==
    IF S.root_path = NoRoot THEN S
    ELSE UpdateCmdPreview(SyncPatternsBox(ReloadFilesList(ShowAll(
             EnsureDefaultIgnoresExist(ClearExcluded(Discover(S)))))))

\* _rescan_and_update
RescanAndUpdate(S) ==
    IF S.root_path = NoRoot THEN S
    ELSE UpdateCmdPreview(SyncPatternsBox(ReloadFilesList(ShowAll(
             EnsureDefaultIgnoresExist(Discover(S))))))

(***************************************************************************)
(* State cache                                                             *)
(***************************************************************************)

\* The check box whose value is saved under key k
CheckBoxOfKey(k) == CheckBoxes[CHOOSE i \in 1..Len(CheckBoxes) : CheckBoxes[i].key = k].cb

\* The object _persist_state serializes.  list(set) lists the opt-outs in
\* the set's iteration order; the model lists them sorted (the loader makes
\* a set of them again).
StateOf(S) ==
    [ last_dir               |-> S.root_path,
      output_name            |-> S.output_name,
      style                  |-> S.style_choice,
      header_text            |-> S.header_text,
      instruction_file_path  |-> S.instructions_picker,
      flags                  |-> [ k \in FlagKeys |-> S.cb[CheckBoxOfKey(k)] ],
      ignore_patterns        |-> S.ignore_patterns,
      ignore_defaults_optout |-> SortedStrings(S.ignore_defaults_optout),
      excluded_files         |-> SortedPaths(S.excluded_files_set) ]

\* _persist_state: json.dumps writes the object, json.loads reads it back
\* as the same strings, booleans, lists and dictionary.
PersistState(S) == [S EXCEPT !.cache = << StateOf(S) >>]

\* _on_command_changed
OnCommandChanged(S) == PersistState(RescanAndUpdate(S))

\* TextCtrl.SetValue on output_name or header_text: wx sets the text and
\* sends EVT_TEXT, which lines 236 and 249 bind to _on_command_changed_evt.
SetOutputName(S, v) == OnCommandChanged([S EXCEPT !.output_name = v])

SetHeaderText(S, v) == OnCommandChanged([S EXCEPT !.header_text = v])

\* bool(flags.get(key)) and, for remove_empty, bool(flags.get(key, True))
FlagFromCache(flags, key) ==
    IF key \in DOMAIN flags THEN flags[key] ELSE key = "remove_empty"

\* Lines 625-628: the directory saved, when it still is one
RestoreDir(S, data) ==
    IF data.last_dir # "" /\ data.last_dir \in Roots
    THEN [S EXCEPT !.root_path = data.last_dir]
    ELSE S

\* Lines 630-636: the style saved, when the choice offers it
RestoreStyle(S, style) ==
    IF style \in Styles THEN [S EXCEPT !.style_choice = style] ELSE S

\* Lines 639-644
RestoreInstructions(S, data) ==
    IF data.instruction_file_path # ""
    THEN [S EXCEPT !.instructions_picker = data.instruction_file_path]
    ELSE S

\* Lines 645-665: the check boxes and the ignore/exclude lists
RestoreFlagsAndLists(S, data) ==
    [S EXCEPT
       !.cb = [ n \in CheckBoxNames |-> FlagFromCache(data.flags, KeyOf(n)) ],
       !.ignore_patterns = data.ignore_patterns,
       !.ignore_defaults_optout = SeqToSet(data.ignore_defaults_optout),
       !.excluded_files_set = SeqToSet(data.excluded_files)]

\* Lines 667-669
RestoreRefresh(S) == IF S.root_path # NoRoot THEN OnRefresh(S) ELSE S

\* self.output_name.SetValue(data.get("output_name") or self.output_name.GetValue())
RestoreOutputName(S, data) ==
    SetOutputName(S, IF data.output_name # "" THEN data.output_name ELSE S.output_name)

\* _restore_state on the content of the cache file
RestoreFrom(S, data) ==
    RestoreRefresh(RestoreFlagsAndLists(RestoreInstructions(
        SetHeaderText(
            RestoreOutputName(
                RestoreStyle(RestoreDir(S, data),
                             IF data.style # "" THEN data.style ELSE "markdown"),
                data),
            data.header_text),
        data), data))

\* What can be wrong with the cache file: it cannot be read or parsed
\* (line 623 raises), "flags" holds a list (flags.get of line 647 raises),
\* "ignore_patterns" holds a number (list() of line 663 raises).  A file
\* at fault is <<data, fault>>: the object it would hold but for the fault.
CacheFaults == { "json", "flags", "ignore_patterns" }

\* _restore_state on a file at fault: the statements before the one that
\* raises have run when line 670 catches the exception
RestoreFaulty(S, data, fault) ==
    IF fault = "json" THEN S
    ELSE IF fault = "flags"
    THEN RestoreInstructions(
             SetHeaderText(
                 RestoreOutputName(
                     RestoreStyle(RestoreDir(S, data),
                                  IF data.style # "" THEN data.style ELSE "markdown"),
                     data),
                 data.header_text),
             data)
    ELSE [ RestoreInstructions(
               SetHeaderText(
                   RestoreOutputName(
                       RestoreStyle(RestoreDir(S, data),
                                    IF data.style # "" THEN data.style ELSE "markdown"),
                       data),
                   data.header_text),
               data)
           EXCEPT !.cb = [ n \in CheckBoxNames |-> FlagFromCache(data.flags, KeyOf(n)) ] ]

\* _restore_state
RestoreState(S) ==
    IF S.cache = <<>> THEN S
    ELSE IF Len(S.cache) = 1 THEN RestoreFrom(S, S.cache[1])
    ELSE RestoreFaulty(S, S.cache[1], S.cache[2])

\* The frame as lines 54-250 build it, beside the cache file found on disk
NewFrame(cache_file) ==
    [ root_path              |-> NoRoot,
      all_files              |-> <<>>,
      visible_files          |-> <<>>,
      excluded_files_set     |-> {},
      ignore_patterns        |-> <<>>,
      ignore_defaults_optout |-> {},
      filter_input           |-> "",
      output_name            |-> "repomix_output.md",
      style_choice           |-> "markdown",
      header_text            |-> "",
      instructions_picker    |-> "",
      cb                     |-> DefaultCheckBoxes,
      ignore_patterns_box    |-> <<>>,
      excluded_files         |-> <<>>,
      cmd_preview            |-> "",
      cache                  |-> cache_file ]

\* _init_root_from_args_or_cache: arg is sys.argv[1], "" when there is none
InitRootFromArgsOrCache(S, arg) ==
    IF arg # "" /\ arg \in Roots
    THEN PersistState(OnRefresh([S EXCEPT !.root_path = arg]))
    ELSE RestoreState(S)

\* RepomixFrame.__init__
Construct(cache_file, arg) ==
    InitRootFromArgsOrCache(UpdateCmdPreview(NewFrame(cache_file)), arg)

(***************************************************************************)
(* UI logic: the event handlers, as functions from the frame state before  *)
(* the event to the frame state after it.                                  *)
(***************************************************************************)

\* on_dir_changed, the user having picked directory d
OnDirChanged(S, d) == PersistState(OnRefresh([S EXCEPT !.root_path = d]))

\* A filter change that refreshes as Reset does.
OnFilterResetting(S, text) == OnRefresh([S EXCEPT !.filter_input = text])

\* on_filter, the text of filter_input having become text
OnFilter(S, text) == RescanAndUpdate([S EXCEPT !.filter_input = text])

\* ext_map.get(style, ".md")
ExtOf(style) ==
    IF style = "markdown" THEN ".md"
    ELSE IF style = "plain" THEN ".txt"
    ELSE IF style = "xml" THEN ".xml"
    ELSE ".md"

\* Path(current).stem or "repomix_output"
StemOr(current) == IF PathStem(current) # "" THEN PathStem(current) ELSE "repomix_output"

\* Lines 313-319: the output name gets the extension of the style
RenameOutput(S, current, new_name) ==
    IF new_name # current THEN SetOutputName(S, new_name) ELSE S

\* (self.output_name.GetValue() or "repomix_output").strip()
CurrentOutput(S) == Strip(IF S.output_name # "" THEN S.output_name ELSE "repomix_output")

\* on_style_change, the user having chosen style
OnStyleChange(S, style) ==
    OnCommandChanged(
        RenameOutput([S EXCEPT !.style_choice = style],
                     CurrentOutput(S),
                     StemOr(CurrentOutput(S)) \o ExtOf(style)))

\* _on_command_changed_evt for a check box the user clicked
OnCheckBox(S, name) == OnCommandChanged([S EXCEPT !.cb[name] = ~S.cb[name]])

\* _on_command_changed_evt for the instructions file picker
OnInstructionsPicked(S, path) == OnCommandChanged([S EXCEPT !.instructions_picker = path])

\* on_to_exclude, sel being the selected indices of files_list
OnToExclude(S, sel) ==
    PersistState(RescanAndUpdate(
        [S EXCEPT !.excluded_files_set = @ \cup { S.visible_files[i] : i \in sel }]))

\* on_to_include, sel being the selected indices of excluded_files
OnToInclude(S, sel) ==
    PersistState(RescanAndUpdate(
        [S EXCEPT !.excluded_files_set = @ \ { S.excluded_files[i] : i \in sel }]))

\* An add that drops a pattern already present in the list.
AppendPatternOnce(S, pat) ==
    IF pat \in SeqToSet(S.ignore_patterns) THEN S
    ELSE [S EXCEPT
            !.ignore_patterns = Append(@, pat),
            !.ignore_patterns_box = Append(@, pat),
            !.ignore_defaults_optout = @ \ {pat}]

\* Lines 345-350: the pattern is appended and its opt-out cleared
AppendPattern(S, pat) ==
    [S EXCEPT
       !.ignore_patterns = Append(@, pat),
       !.ignore_patterns_box = Append(@, pat),
       !.ignore_defaults_optout =
           IF pat \in IGNORED_DIRS_DEFAULT /\ pat \in @ THEN @ \ {pat} ELSE @]

\* on_add_ignore, text being the content of ignore_input
OnAddIgnore(S, text) ==
    IF Strip(text) = "" THEN S
    ELSE PersistState(RescanAndUpdate(AppendPattern(S, Strip(text))))

\* The list q without the entries at the indices of sel
RECURSIVE WithoutIndices(_, _, _)
WithoutIndices(q, sel, i) ==
    IF i > Len(q) THEN <<>>
    ELSE (IF i \in sel THEN <<>> ELSE <<q[i]>>) \o WithoutIndices(q, sel, i + 1)

\* The entries of q at the indices of sel, in ascending order of index
RECURSIVE AtIndices(_, _, _)
AtIndices(q, sel, i) ==
    IF i > Len(q) THEN <<>>
    ELSE (IF i \in sel THEN <<q[i]>> ELSE <<>>) \o AtIndices(q, sel, i + 1)

\* A removal that releases no exact exclusion.
ToUnexcludeNone(S, removed_patterns, remaining) == {}

\* Lines 365-373: the exact exclusions that on_remove_ignore drops
ToUnexclude(S, removed_patterns, remaining) ==
    { p \in S.excluded_files_set :
        MatchesPatterns(p, removed_patterns) /\ ~MatchesPatterns(p, remaining) }

\* A removal that records no opt-out.
RemovePatternsForgetful(S, sel, removed_patterns, remaining) ==
    [S EXCEPT
       !.ignore_patterns = remaining,
       !.ignore_patterns_box = WithoutIndices(@, sel, 1),
       !.excluded_files_set = @ \ ToUnexclude(S, removed_patterns, remaining)]

\* Lines 356-377
RemovePatterns(S, sel, removed_patterns, remaining) ==
    [S EXCEPT
       !.ignore_patterns = remaining,
       !.ignore_patterns_box = WithoutIndices(@, sel, 1),
       !.excluded_files_set = @ \ ToUnexclude(S, removed_patterns, remaining),
       !.ignore_defaults_optout =
           @ \cup (SeqToSet(removed_patterns) \cap IGNORED_DIRS_DEFAULT)]

\* on_remove_ignore, sel being the selected indices of the list box
\* ignore_patterns
OnRemoveIgnore(S, sel) ==
    PersistState(RescanAndUpdate(
        RemovePatterns(S, sel, AtIndices(S.ignore_patterns, sel, 1),
                       WithoutIndices(S.ignore_patterns, sel, 1))))

(***************************************************************************)
(* Run: on_run and the thread it starts.  R is the state the run touches:  *)
(* log (the chunks of text put into the log control), threads (one record  *)
(* per started thread), call_after (the calls posted with wx.CallAfter and *)
(* not yet made, oldest first) and notices (the message boxes shown).      *)
(* The ellipsis and the dash of the source's texts are written in ASCII.   *)
(***************************************************************************)

\* _append_log: the text appended for msg, the time of day left abstract
Stamp(msg) == "[ts] " \o msg \o "\n"

\* Lines 277-280: on_refresh ends by replacing the log
RefreshLog(S) ==
    << "Ready: found files: " \o ToString(Len(S.all_files)) \o "\n",
       Stamp("Current ignore patterns: " \o
             (IF S.ignore_patterns = <<>> THEN "-" ELSE Join(S.ignore_patterns, ", "))) >>

\* Line 252: the log of a frame constructed without a directory; lines 565-566
\* and 668-669: the log of one constructed with a directory
ConstructLog(S) ==
    IF S.root_path = NoRoot THEN << Stamp("Command updated") >> ELSE RefreshLog(S)

\* Line 449
NoRootBox ==
    [ run |-> 0, message |-> "Select a project directory first", caption |-> "Error" ]

\* Lines 453-454
RunLog(S, cmd) ==
    << ">>> CWD: " \o S.root_path \o "\n>>> CMD: " \o Join(cmd, " ") \o "\n\n",
       Stamp("Starting repomix...") >>

\* Lines 457 and 490: the thread as started; cmd is the local of on_run that
\* the closure captures, logged_cwd the directory written to the log.  The
\* record also keeps what happens to the run: the cwd given to Popen, the
\* number of Popen calls, the exception raised, the exit code and output of
\* the process, and the texts of the thread that have reached the log.
NewThread(S, cmd) ==
    [ pc |-> "popen", cmd |-> cmd, logged_cwd |-> S.root_path, cwd |-> "",
      launches |-> 0, raised |-> "", returncode |-> -1, out |-> "", appended |-> <<>> ]

\* An on_run that starts the thread whether or not a directory is selected.
OnRunUnguarded(S, R) ==
    [R EXCEPT !.log = RunLog(S, BuildCommand(S)),
              !.threads = Append(@, NewThread(S, BuildCommand(S)))]

\* on_run
OnRun(S, R) ==
    IF S.root_path = NoRoot
    THEN [R EXCEPT !.notices = Append(@, NoRootBox)]
    ELSE [R EXCEPT !.log = RunLog(S, BuildCommand(S)),
                   !.threads = Append(@, NewThread(S, BuildCommand(S)))]

\* What subprocess.Popen does with the argv: it starts the process, or
\* raises FileNotFoundError (no such executable) or another exception
LaunchOutcomes == { "started", "FileNotFoundError", "Exception" }

\* str(e) of a launch failure other than FileNotFoundError
LaunchErrorText == "[Errno 13] Permission denied: 'repomix'"

\* Lines 469-479: a notice that is the success notice whatever the exit code.
CompletionBoxAlwaysDone(i, returncode) ==
    [ run |-> i, message |-> "Done! Output written.", caption |-> "repomix" ]

\* Lines 469-479
CompletionBox(i, returncode) ==
    IF returncode = 0
    THEN [ run |-> i, message |-> "Done! Output written.", caption |-> "repomix" ]
    ELSE [ run |-> i, message |-> "repomix exited with non-zero status. See log.",
           caption |-> "Error" ]

\* Lines 480-487
NotFoundBox(i) ==
    [ run |-> i, message |-> "Executable 'repomix' not found. Install: pip install repomix",
      caption |-> "Error" ]

\* Lines 488-489
LaunchErrorBox(i) ==
    [ run |-> i, message |-> "Launch error: " \o LaunchErrorText, caption |-> "Error" ]

\* wx.CallAfter(wx.MessageBox, ...)
PostBox(R, box) == [R EXCEPT !.call_after = Append(@, [ fn |-> "MessageBox", box |-> box ])]

\* wx.CallAfter(self.log.AppendText, text) by thread i
PostAppend(R, i, text) ==
    [R EXCEPT !.call_after = Append(@, [ fn |-> "AppendText", run |-> i, text |-> text ])]

\* Lines 459-465, 480-489: thread i calls Popen with its cmd and with the
\* root_path the frame holds at this moment
Popen(S, R, i, outcome) ==
    IF outcome = "started"
    THEN [R EXCEPT !.threads[i].pc = "communicate",
                   !.threads[i].cwd = S.root_path,
                   !.threads[i].launches = @ + 1]
    ELSE PostBox([R EXCEPT !.threads[i].pc = "done",
                           !.threads[i].cwd = S.root_path,
                           !.threads[i].launches = @ + 1,
                           !.threads[i].raised = outcome],
                 IF outcome = "FileNotFoundError" THEN NotFoundBox(i) ELSE LaunchErrorBox(i))

\* Line 466: the process exits with returncode, having written out
Communicate(R, i, returncode, out) ==
    [R EXCEPT !.threads[i].pc = "post_out",
              !.threads[i].returncode = returncode,
              !.threads[i].out = out]

\* Line 467
PostOut(R, i) ==
    PostAppend([R EXCEPT !.threads[i].pc = "post_exit"], i, R.threads[i].out)

\* Line 468
PostExitCode(R, i) ==
    PostAppend([R EXCEPT !.threads[i].pc = "post_box"], i,
               "\n>>> Exit code: " \o ToString(R.threads[i].returncode) \o "\n")

\* Lines 469-479
PostCompletion(R, i) ==
    PostBox([R EXCEPT !.threads[i].pc = "done"], CompletionBox(i, R.threads[i].returncode))

\* The UI context makes the oldest pending call
MakeCall(R) ==
    IF Head(R.call_after).fn = "AppendText"
    THEN [R EXCEPT !.call_after = Tail(@),
                   !.log = Append(@, Head(R.call_after).text),
                   !.threads[Head(R.call_after).run].appended = Append(@, Head(R.call_after).text)]
    ELSE [R EXCEPT !.call_after = Tail(@), !.notices = Append(@, Head(R.call_after).box)]

(***************************************************************************)
(* The program as a state machine                                          *)
(***************************************************************************)

VARIABLES root_path, all_files, visible_files, excluded_files_set, ignore_patterns,
          ignore_defaults_optout, filter_input, output_name, style_choice, header_text,
          instructions_picker, cb, ignore_patterns_box, excluded_files, cmd_preview,
          cache,
          last_op     \* the name of the event handled last

frameVars == <<root_path, all_files, visible_files, excluded_files_set, ignore_patterns,
               ignore_defaults_optout, filter_input, output_name, style_choice,
               header_text, instructions_picker, cb, ignore_patterns_box, excluded_files,
               cmd_preview, cache>>

\* The frame state now
Cur ==
    [ root_path              |-> root_path,
      all_files              |-> all_files,
      visible_files          |-> visible_files,
      excluded_files_set     |-> excluded_files_set,
      ignore_patterns        |-> ignore_patterns,
      ignore_defaults_optout |-> ignore_defaults_optout,
      filter_input           |-> filter_input,
      output_name            |-> output_name,
      style_choice           |-> style_choice,
      header_text            |-> header_text,
      instructions_picker    |-> instructions_picker,
      cb                     |-> cb,
      ignore_patterns_box    |-> ignore_patterns_box,
      excluded_files         |-> excluded_files,
      cmd_preview            |-> cmd_preview,
      cache                  |-> cache ]

\* The handler named op leaves the frame state S
Becomes(S, op) ==
    /\ root_path' = S.root_path
    /\ all_files' = S.all_files
    /\ visible_files' = S.visible_files
    /\ excluded_files_set' = S.excluded_files_set
    /\ ignore_patterns' = S.ignore_patterns
    /\ ignore_defaults_optout' = S.ignore_defaults_optout
    /\ filter_input' = S.filter_input
    /\ output_name' = S.output_name
    /\ style_choice' = S.style_choice
    /\ header_text' = S.header_text
    /\ instructions_picker' = S.instructions_picker
    /\ cb' = S.cb
    /\ ignore_patterns_box' = S.ignore_patterns_box
    /\ excluded_files' = S.excluded_files
    /\ cmd_preview' = S.cmd_preview
    /\ cache' = S.cache
    /\ last_op' = op

\* The frame state is S, left by the handler named op
Is(S, op) ==
    /\ root_path = S.root_path
    /\ all_files = S.all_files
    /\ visible_files = S.visible_files
    /\ excluded_files_set = S.excluded_files_set
    /\ ignore_patterns = S.ignore_patterns
    /\ ignore_defaults_optout = S.ignore_defaults_optout
    /\ filter_input = S.filter_input
    /\ output_name = S.output_name
    /\ style_choice = S.style_choice
    /\ header_text = S.header_text
    /\ instructions_picker = S.instructions_picker
    /\ cb = S.cb
    /\ ignore_patterns_box = S.ignore_patterns_box
    /\ excluded_files = S.excluded_files
    /\ cmd_preview = S.cmd_preview
    /\ cache = S.cache
    /\ last_op = op

\* The position and the result of a call of _build_command on its own
VARIABLES cmd_pc, cmd_argv

cmdVars == <<cmd_pc, cmd_argv>>

\* The run: the log control, the threads started by on_run, the pending
\* wx.CallAfter calls and the message boxes shown
VARIABLES log, threads, call_after, notices

runVars == <<log, threads, call_after, notices>>

CurRun == [ log |-> log, threads |-> threads, call_after |-> call_after, notices |-> notices ]

RunBecomes(R) ==
    /\ log' = R.log
    /\ threads' = R.threads
    /\ call_after' = R.call_after
    /\ notices' = R.notices

(***************************************************************************)
(* The matcher on its own: the inputs of one call of _matches_patterns are *)
(* drawn by InitMatch, DoMatch performs the call.                          *)
(***************************************************************************)

VARIABLES match_pc, match_path, match_patterns, match_result

matchVars == <<match_pc, match_path, match_patterns, match_result>>

\* Longest pattern list handed to the matcher on its own.
MaxMatchPatterns == 2

MatchPaths ==
    { "node_modules", "node_modules/x/y.js", "my_node_modules/x", "a/b/c.png",
      "src/a.ts", "src/sub/a.ts", "a.py", ".git/config", "src\\a.ts" }

MatchPatterns ==
    { "node_modules", "node_modules/", "*.png", "src/*.ts", "./src/", "src\\a.ts",
      "", "  ", "[ab].p?", ".git", " a.py " }

RECURSIVE SeqsUpTo(_, _)
SeqsUpTo(S, n) ==
    IF n = 0 THEN { <<>> }
    ELSE LET shorter == SeqsUpTo(S, n - 1) IN
         shorter \cup { Append(q, x) : q \in { r \in shorter : Len(r) = n - 1 }, x \in S }

InitMatch ==
    /\ Is(Construct(<<>>, ""), "init")
    /\ match_pc = "call"
    /\ match_path \in MatchPaths
    /\ match_patterns \in SeqsUpTo(MatchPatterns, MaxMatchPatterns)
    /\ match_result = FALSE
    /\ cmd_pc = "idle"
    /\ cmd_argv = <<>>
    /\ log = <<>>
    /\ threads = <<>>
    /\ call_after = <<>>
    /\ notices = <<>>

DoMatch ==
    /\ match_pc = "call"
    /\ match_result' = MatchesPatterns(match_path, match_patterns)
    /\ match_pc' = "done"
    /\ UNCHANGED <<match_path, match_patterns>>

(***************************************************************************)
(* _build_command on its own: InitCmd draws the values of the controls and *)
(* the two collections it reads, DoBuild performs the call.                *)
(***************************************************************************)

\* The check boxes ticked when _build_command is called on its own: none,
\* all, the ones ticked by __init__, and those with one box clicked.
CmdCheckBoxes ==
    { [ n \in CheckBoxNames |-> FALSE ], [ n \in CheckBoxNames |-> TRUE ], DefaultCheckBoxes }
    \cup { [ DefaultCheckBoxes EXCEPT ![n] = ~DefaultCheckBoxes[n] ] : n \in CheckBoxNames }

CmdOutputNames == { "", " ", "out", " o.md " }

CmdStyles == { "markdown", "xml" }

CmdHeaderTexts == { "", " my hdr " }

CmdInstructionPaths == { "", "/i.md" }

CmdPatterns == { <<>>, <<"b*", "a">> }

CmdExcluded == { {}, {"a.py", "a/b.py"}, {"z.py"} }

InitCmd ==
    /\ \E c \in CmdCheckBoxes, o \in CmdOutputNames, st \in CmdStyles, h \in CmdHeaderTexts,
          ip \in CmdInstructionPaths, pats \in CmdPatterns, ex \in CmdExcluded :
           Is([ Construct(<<>>, "") EXCEPT !.cb = c, !.output_name = o, !.style_choice = st,
                                           !.header_text = h, !.instructions_picker = ip,
                                           !.ignore_patterns = pats,
                                           !.excluded_files_set = ex ], "init")
    /\ match_pc = "idle"
    /\ match_path = ""
    /\ match_patterns = <<>>
    /\ match_result = FALSE
    /\ cmd_pc = "call"
    /\ cmd_argv = <<>>
    /\ log = <<>>
    /\ threads = <<>>
    /\ call_after = <<>>
    /\ notices = <<>>

DoBuild ==
    /\ cmd_pc = "call"
    /\ cmd_argv' = BuildCommand(Cur)
    /\ cmd_pc' = "done"

(***************************************************************************)
(* The rescans on their own: InitRescan draws the directory, the pattern   *)
(* list, the opt-outs and the exact exclusions a rescan finds, RescanReset *)
(* and RescanOther perform on_refresh and _rescan_and_update.              *)
(***************************************************************************)

RescanPatterns == { <<>>, <<"dist">>, <<"*.py", "node_modules">>, <<"dist", "dist">> }

RescanOptOuts == SUBSET { ".git", "dist" }

RescanExcluded == { {}, {"a.py"} }

InitRescan ==
    /\ \E r \in Directories, pats \in RescanPatterns, opt \in RescanOptOuts,
          ex \in RescanExcluded :
           Is([ Construct(<<>>, "") EXCEPT !.root_path = r, !.ignore_patterns = pats,
                                           !.ignore_defaults_optout = opt,
                                           !.excluded_files_set = ex ], "init")
    /\ match_pc = "idle"
    /\ match_path = ""
    /\ match_patterns = <<>>
    /\ match_result = FALSE
    /\ cmd_pc = "idle"
    /\ cmd_argv = <<>>
    /\ log = <<>>
    /\ threads = <<>>
    /\ call_after = <<>>
    /\ notices = <<>>

RescanReset == Becomes(OnRefresh(Cur), "on_refresh")

RescanOther == Becomes(RescanAndUpdate(Cur), "_rescan_and_update")

(***************************************************************************)
(* The inputs of the user, and the bounds of the model                     *)
(***************************************************************************)

\* on_add_ignore is offered while the pattern list is shorter than this.
MaxPatterns == 2

\* At most this many option controls hold a value other than the one
\* __init__ gives them.
MaxOptDirty == 1

\* At most this many things are changed in the frame at one time.
MaxDirty == 3

\* What the user types into filter_input
FilterTexts == { "", "PY " }

\* What the user types into ignore_input
IgnoreTexts == { ".git", "*.py", "  " }

\* What the user types into output_name and header_text, and the
\* instruction files picked
OutputNames == { "", "out" }

HeaderTexts == { "", "my hdr" }

InstructionPaths == { "", "/i.md" }

\* The check boxes the user clicks
ClickedBoxes == { "cb_compress", "cb_remove_empty", "cb_include_logs" }

\* A cache file left by a version of the program that saved no remove_empty
\* flag and no directory.
LegacyData ==
    [ last_dir               |-> "",
      output_name            |-> "repomix_output.md",
      style                  |-> "markdown",
      header_text            |-> "",
      instruction_file_path  |-> "",
      flags                  |-> [ k \in FlagKeys \ {"remove_empty"} |-> FALSE ],
      ignore_patterns        |-> <<>>,
      ignore_defaults_optout |-> <<>>,
      excluded_files         |-> <<>> ]

\* The cache the first start of the program finds
InitialCaches == { <<>>, <<LegacyData>> }

\* The number of option controls holding a value other than the one __init__
\* gives them; an output name that on_style_change derives from the default
\* stem counts as the default.
OptDirty(S) ==
    Cardinality({ n \in CheckBoxNames : S.cb[n] # DefaultCheckBoxes[n] })
    + (IF S.header_text # "" THEN 1 ELSE 0)
    + (IF S.instructions_picker # "" THEN 1 ELSE 0)
    + (IF S.style_choice # "markdown" THEN 1 ELSE 0)
    + (IF S.output_name \in { "repomix_output" \o ExtOf(st) : st \in Styles } THEN 0 ELSE 1)

Options(S) ==
    /\ OptDirty(S) <= MaxOptDirty

\* The number of things the user has changed in the frame: options, filter
\* text, patterns in the list, opted-out defaults and excluded files.
Dirty(S) ==
    OptDirty(S)
    + (IF S.filter_input # "" THEN 1 ELSE 0)
    + Len(S.ignore_patterns)
    + Cardinality(S.ignore_defaults_optout)
    + Cardinality(S.excluded_files_set)

\* A handler runs when it leaves the frame within the bounds of the model.
Step(S, op) ==
    /\ Dirty(S) <= MaxDirty
    /\ Becomes(S, op)

(***************************************************************************)
(* Actions: one per event                                                  *)
(***************************************************************************)

DirChanged == \E d \in Roots : Step(OnDirChanged(Cur, d), "on_dir_changed")

Reset == Step(OnRefresh(Cur), "on_refresh")

Filter ==
    \E text \in FilterTexts :
        /\ text # filter_input
        /\ Step(OnFilter(Cur, text), "on_filter")

StyleChange ==
    \E style \in Styles :
        LET S == OnStyleChange(Cur, style) IN
        /\ Options(S)
        /\ Step(S, "on_style_change")

OutputNameEdit ==
    \E text \in OutputNames :
        LET S == SetOutputName(Cur, text) IN
        /\ text # output_name
        /\ Options(S)
        /\ Step(S, "output_name")

HeaderTextEdit ==
    \E text \in HeaderTexts :
        LET S == SetHeaderText(Cur, text) IN
        /\ text # header_text
        /\ Options(S)
        /\ Step(S, "header_text")

InstructionsPicked ==
    \E path \in InstructionPaths :
        LET S == OnInstructionsPicked(Cur, path) IN
        /\ path # instructions_picker
        /\ Options(S)
        /\ Step(S, "instructions_picker")

CheckBoxClicked ==
    \E name \in ClickedBoxes :
        LET S == OnCheckBox(Cur, name) IN
        /\ Options(S)
        /\ Step(S, "check_box")

ToExclude ==
    \E sel \in SUBSET (1..Len(visible_files)) :
        Step(OnToExclude(Cur, sel), "on_to_exclude")

ToInclude ==
    \E sel \in SUBSET (1..Len(excluded_files)) :
        Step(OnToInclude(Cur, sel), "on_to_include")

AddIgnore ==
    \E text \in IgnoreTexts :
        /\ Len(ignore_patterns) < MaxPatterns
        /\ Step(OnAddIgnore(Cur, text), "on_add_ignore")

RemoveIgnore ==
    \E sel \in SUBSET (1..Len(ignore_patterns_box)) :
        Step(OnRemoveIgnore(Cur, sel), "on_remove_ignore")

\* The program is closed and started again without an argument.
Restart == Step(Construct(cache, ""), "restart")

\* The program is closed and started again with a directory as argument.
StartWithArg == \E d \in Roots : Step(Construct(cache, d), "start_arg")

Init ==
    /\ \E c \in InitialCaches : Is(Construct(c, ""), "init")
    /\ match_pc = "idle"
    /\ match_path = ""
    /\ match_patterns = <<>>
    /\ match_result = FALSE
    /\ cmd_pc = "idle"
    /\ cmd_argv = <<>>
    /\ log = <<>>
    /\ threads = <<>>
    /\ call_after = <<>>
    /\ notices = <<>>

Next ==
    /\ \/ DirChanged
       \/ Reset
       \/ Filter
       \/ StyleChange
       \/ OutputNameEdit
       \/ HeaderTextEdit
       \/ InstructionsPicked
       \/ CheckBoxClicked
       \/ ToExclude
       \/ ToInclude
       \/ AddIgnore
       \/ RemoveIgnore
       \/ Restart
       \/ StartWithArg
    /\ UNCHANGED <<matchVars, cmdVars, runVars>>

vars == <<frameVars, last_op, matchVars, cmdVars, runVars>>

Spec == Init /\ [][Next]_vars

NextMatch == DoMatch /\ UNCHANGED <<frameVars, last_op, cmdVars, runVars>>

SpecMatch == InitMatch /\ [][NextMatch]_vars

NextRescan == (RescanReset \/ RescanOther) /\ UNCHANGED <<matchVars, cmdVars, runVars>>

SpecRescan == InitRescan /\ [][NextRescan]_vars

NextCmd == DoBuild /\ UNCHANGED <<frameVars, last_op, matchVars, runVars>>

SpecCmd == InitCmd /\ [][NextCmd]_vars

(***************************************************************************)
(* _restore_state on a cache file at fault: a frame started without a      *)
(* cache file, a file at fault put in the file's place, and the program    *)
(* started again on it and on what each start leaves.                      *)
(***************************************************************************)

\* The objects the files at fault would hold
FaultyContents ==
    { [ LegacyData EXCEPT !.last_dir = d, !.style = st, !.output_name = o,
                          !.header_text = h, !.flags = [ k \in FlagKeys |-> k = c ] ] :
        d \in { "", "/r1" }, st \in Styles, o \in { "repomix_output.md", "out" },
        h \in HeaderTexts, c \in { "compress", "remove_empty" } }

InitRestore ==
    /\ \E data \in FaultyContents, fault \in CacheFaults :
           Is([ Construct(<<>>, "") EXCEPT !.cache = <<data, fault>> ], "init")
    /\ match_pc = "idle"
    /\ match_path = ""
    /\ match_patterns = <<>>
    /\ match_result = FALSE
    /\ cmd_pc = "idle"
    /\ cmd_argv = <<>>
    /\ log = <<>>
    /\ threads = <<>>
    /\ call_after = <<>>
    /\ notices = <<>>

\* The program is closed and started again without an argument.
RestoreRestart == Becomes(Construct(cache, ""), "restart")

NextRestore == RestoreRestart /\ UNCHANGED <<matchVars, cmdVars, runVars>>

SpecRestore == InitRestore /\ [][NextRestore]_vars

(***************************************************************************)
(* The run as a state machine: on_run and on_dir_changed in the UI         *)
(* context, the steps of each started thread, and the UI context making    *)
(* the calls posted to it.                                                 *)
(***************************************************************************)

MaxRuns == 1

\* The directory argument the program is started with ("" for none)
RunArgs == { "", "/r1" }

\* proc.returncode
ExitCodes == { 0, 1 }

\* The captured output of the process
Outputs == { "packed\n" }

InitRun ==
    /\ \E arg \in RunArgs :
           /\ Is(Construct(<<>>, arg), "init")
           /\ log = ConstructLog(Construct(<<>>, arg))
    /\ threads = <<>>
    /\ call_after = <<>>
    /\ notices = <<>>
    /\ match_pc = "idle"
    /\ match_path = ""
    /\ match_patterns = <<>>
    /\ match_result = FALSE
    /\ cmd_pc = "idle"
    /\ cmd_argv = <<>>

\* EVT_BUTTON of btn_run
RunRequested ==
    /\ Len(threads) < MaxRuns
    /\ root_path = NoRoot => Len(notices) < MaxRuns
    /\ RunBecomes(OnRun(Cur, CurRun))
    /\ last_op' = "on_run"
    /\ UNCHANGED frameVars

\* EVT_DIRPICKER_CHANGED of dir_picker
RunDirChanged ==
    \E d \in Roots :
        /\ Becomes(OnDirChanged(Cur, d), "on_dir_changed")
        /\ log' = RefreshLog(OnDirChanged(Cur, d))
        /\ UNCHANGED <<threads, call_after, notices>>

\* A step of thread i that leaves the frame as it is
ThreadBecomes(R, op) ==
    /\ RunBecomes(R)
    /\ last_op' = op
    /\ UNCHANGED frameVars

ThreadPopen(i) ==
    /\ i \in 1..Len(threads)
    /\ threads[i].pc = "popen"
    /\ \E outcome \in LaunchOutcomes : ThreadBecomes(Popen(Cur, CurRun, i, outcome), "Popen")

ThreadCommunicate(i) ==
    /\ i \in 1..Len(threads)
    /\ threads[i].pc = "communicate"
    /\ \E returncode \in ExitCodes, out \in Outputs :
           ThreadBecomes(Communicate(CurRun, i, returncode, out), "communicate")

ThreadPostOut(i) ==
    /\ i \in 1..Len(threads)
    /\ threads[i].pc = "post_out"
    /\ ThreadBecomes(PostOut(CurRun, i), "post_out")

ThreadPostExitCode(i) ==
    /\ i \in 1..Len(threads)
    /\ threads[i].pc = "post_exit"
    /\ ThreadBecomes(PostExitCode(CurRun, i), "post_exit")

ThreadPostCompletion(i) ==
    /\ i \in 1..Len(threads)
    /\ threads[i].pc = "post_box"
    /\ ThreadBecomes(PostCompletion(CurRun, i), "post_box")

ThreadStep(i) ==
    \/ ThreadPopen(i)
    \/ ThreadCommunicate(i)
    \/ ThreadPostOut(i)
    \/ ThreadPostExitCode(i)
    \/ ThreadPostCompletion(i)

\* The event loop of the UI context reaches a posted call
UiMakesCall ==
    /\ call_after # <<>>
    /\ ThreadBecomes(MakeCall(CurRun), "call_after")

NextRun ==
    /\ \/ RunRequested
       \/ RunDirChanged
       \/ \E i \in 1..MaxRuns : ThreadStep(i)
       \/ UiMakesCall
    /\ UNCHANGED <<matchVars, cmdVars>>

SpecRun == InitRun /\ [][NextRun]_vars

\* Every started thread is scheduled, the process it waits for ends, and the
\* event loop of the UI context keeps running.
SpecRunFair ==
    /\ InitRun
    /\ [][NextRun]_vars
    /\ \A i \in 1..MaxRuns : WF_vars(ThreadStep(i) /\ UNCHANGED <<matchVars, cmdVars>>)
    /\ WF_vars(UiMakesCall /\ UNCHANGED <<matchVars, cmdVars>>)

(***************************************************************************)
(* The matcher (under SpecMatch)                                           *)
(***************************************************************************)

\* The path the matcher compares: the argument with every backslash folded
\* to "/"; a slash-normalized path is left as it is.
FoldedPath(path) == Replace(path, "\\", "/")

\* Some pattern of the list, non-empty after normalization, (a) equals the
\* path, or (b) glob-matches the whole path, or (c) has no "/" and the path
\* starts with the pattern followed by "/".
SomePatternCovers(path, patterns) ==
    \E k \in 1..Len(patterns) :
        LET pat == NormalizeGlob(patterns[k]) IN
        /\ pat # ""
        /\ \/ pat = FoldedPath(path)
           \/ FnMatch(FoldedPath(path), pat)
           \/ /\ \A n \in 1..Len(pat) : CharAt(pat, n) # "/"
              /\ StartsWith(FoldedPath(path), pat \o "/")

Matched(path, patterns, result) ==
    /\ match_pc = "done"
    /\ match_path = path
    /\ match_patterns = patterns
    /\ match_result = result

\* C2: for every path and every pattern list the matcher returns true
\* exactly when some pattern that is non-empty after normalization equals
\* the path, glob-matches the whole path, or contains no "/" and the path
\* starts with pattern + "/"; it returns false for the empty list and for a
\* list of empty patterns only.  Pattern "node_modules" matches
\* "node_modules" and "node_modules/x/y.js" but not "my_node_modules/x".
C2_MatcherCharacterization ==
    match_pc = "done" =>
        /\ match_result = SomePatternCovers(match_path, match_patterns)
        /\ (\A k \in 1..Len(match_patterns) : NormalizeGlob(match_patterns[k]) = "")
               => ~match_result
        /\ (match_patterns = <<"node_modules">> /\ match_path = "node_modules")
               => match_result
        /\ (match_patterns = <<"node_modules">> /\ match_path = "node_modules/x/y.js")
               => match_result
        /\ (match_patterns = <<"node_modules">> /\ match_path = "my_node_modules/x")
               => ~match_result

\* A call that skipped an empty pattern and matched a descendant of a
\* directory by the prefix rule.
C2_Witness == Matched("node_modules/x/y.js", <<"  ", "node_modules/">>, TRUE)

\* C3 as stated: "*.png" matches "a/b/c.png"; "src/*.ts" matches "src/a.ts"
\* but does not match "src/sub/a.ts".
C3_GlobStopsAtSlash ==
    match_pc = "done" =>
        /\ (match_patterns = <<"*.png">> /\ match_path = "a/b/c.png") => match_result
        /\ (match_patterns = <<"src/*.ts">> /\ match_path = "src/a.ts") => match_result
        /\ (match_patterns = <<"src/*.ts">> /\ match_path = "src/sub/a.ts") => ~match_result

\* C3, amended: "*.png" matches "a/b/c.png"; "src/*.ts" matches "src/a.ts"
\* and also matches "src/sub/a.ts", because "*" crosses "/".
C3_GlobCrossesSlash ==
    match_pc = "done" =>
        /\ (match_patterns = <<"*.png">> /\ match_path = "a/b/c.png") => match_result
        /\ (match_patterns = <<"src/*.ts">> /\ match_path = "src/a.ts") => match_result
        /\ (match_patterns = <<"src/*.ts">> /\ match_path = "src/sub/a.ts") => match_result

\* The call of the matcher on "src/sub/a.ts" with the one pattern "src/*.ts"
\* has returned true.
C3_Witness == Matched("src/sub/a.ts", <<"src/*.ts">>, TRUE)

(***************************************************************************)
(* The selection model (under Spec)                                        *)
(***************************************************************************)

\* The discovered files, in discovery order, that match no current ignore
\* pattern, are not exactly excluded and, when q is not empty, contain q
\* without regard to case.
Included(q) ==
    SelectSeq(all_files,
              LAMBDA f : /\ ~MatchesPatterns(f, ignore_patterns)
                         /\ f \notin excluded_files_set
                         /\ (q = "" \/ Contains(Lower(f), Lower(q))))

\* C1 as stated: with a root directory selected the visible list is the
\* discovered files that match no ignore pattern, are not exactly excluded
\* and, when the filter text is non-empty, contain the filter text as a
\* case-insensitive substring.
C1_VisibleByFilterText ==
    root_path # NoRoot => visible_files = Included(filter_input)

\* C1, amended: with a root directory selected the visible list is the
\* discovered files that match no ignore pattern, are not exactly excluded
\* and, when the filter text stripped of surrounding white space is
\* non-empty, contain the stripped text as a case-insensitive substring;
\* with an empty filter and no exclusions it is the discovered files minus
\* the files matched by the patterns.
C1_VisibleByStrippedFilter ==
    root_path # NoRoot =>
        /\ visible_files = Included(Strip(filter_input))
        /\ (filter_input = "" /\ excluded_files_set = {})
               => visible_files =
                      SelectSeq(all_files, LAMBDA f : ~MatchesPatterns(f, ignore_patterns))

\* A filter in upper case with a trailing blank has been typed: the file
\* covered by a pattern is hidden and the file containing the text is shown.
C1_Witness ==
    /\ root_path = "/r2"
    /\ filter_input = "PY "
    /\ ignore_patterns = <<"dist">>
    /\ all_files = <<"a.py", "dist/x.js">>
    /\ visible_files = <<"a.py">>
    /\ last_op = "on_filter"

(***************************************************************************)
(* Command synthesis (under SpecCmd)                                       *)
(***************************************************************************)

\* The tokens of the ticked check boxes, in the order of declaration
FlagTokens ==
    LET ticked == SelectSeq(CheckBoxes, LAMBDA r : cb[r.cb])
    IN  [ i \in 1..Len(ticked) |-> ticked[i].flag ]

\* The exactly-excluded paths in ascending order: the path at position i has
\* i - 1 smaller paths in the set.
ExcludedInOrder ==
    [ i \in 1..Cardinality(excluded_files_set) |->
        CHOOSE f \in excluded_files_set :
            Cardinality({ g \in excluded_files_set : PathLess(g, f) }) = i - 1 ]

\* --ignore with the patterns in list order, then the excluded paths in
\* ascending order, joined by commas; nothing when both are empty.
IgnoreArgument ==
    IF ignore_patterns = <<>> /\ excluded_files_set = {} THEN <<>>
    ELSE <<"--ignore", Join(ignore_patterns \o ExcludedInOrder, ",")>>

\* option followed by value, or nothing when the value is empty
Optional(option, value) == IF value = "" THEN <<>> ELSE <<option, value>>

\* C8 as stated: argv is the program name; -o NAME if the output name is
\* non-empty and no -o otherwise; --style STYLE; one token per true flag in
\* declaration order; --header-text TEXT if non-empty;
\* --instruction-file-path PATH if non-empty; one --ignore argument of the
\* patterns in list order followed by the excluded paths in sorted order,
\* omitted when both are empty.
C8_ArgvOfFieldsAsTyped ==
    cmd_pc = "done" =>
        cmd_argv = <<"repomix">>
                   \o Optional("-o", output_name)
                   \o <<"--style", style_choice>>
                   \o FlagTokens
                   \o Optional("--header-text", header_text)
                   \o Optional("--instruction-file-path", instructions_picker)
                   \o IgnoreArgument

\* C8, amended: argv is the program name; -o NAME where NAME is the output
\* name stripped of surrounding white space, with repomix_output.md in the
\* place of an empty field, and no -o only when the field holds nothing but
\* white space; --style STYLE; one token per true flag in declaration order;
\* --header-text TEXT and --instruction-file-path PATH with the values
\* stripped, each omitted when the stripped value is empty; one --ignore
\* argument of the patterns in list order followed by the excluded paths in
\* ascending order, omitted when both are empty.
C8_ArgvOfStrippedFields ==
    cmd_pc = "done" =>
        cmd_argv = <<"repomix">>
                   \o Optional("-o", Strip(IF output_name = "" THEN "repomix_output.md"
                                           ELSE output_name))
                   \o <<"--style", style_choice>>
                   \o FlagTokens
                   \o Optional("--header-text", Strip(header_text))
                   \o Optional("--instruction-file-path", Strip(instructions_picker))
                   \o IgnoreArgument

\* The command built from an empty output name, two ticked boxes, a header
\* text with blanks around it, two patterns and two excluded paths.
C8_Witness ==
    /\ cmd_pc = "done"
    /\ output_name = ""
    /\ header_text = " my hdr "
    /\ excluded_files_set = {"a.py", "a/b.py"}
    /\ cmd_argv = << "repomix", "-o", "repomix_output.md", "--style", "markdown",
                     "--compress", "--remove-empty-lines", "--header-text", "my hdr",
                     "--ignore", "b*,a,a/b.py,a.py" >>

(***************************************************************************)
(* The state cache and the command preview (under Spec)                    *)
(***************************************************************************)

\* C4: a load at startup without an argument reconstructs, from the
\* snapshot that save wrote, the same value for every persisted field: root
\* directory, output name, style, header text, instruction file path, the
\* thirteen flags, the ignore patterns, the opted-out defaults and the
\* excluded files; a flag missing from the snapshot is restored as false,
\* except remove_empty, which is restored as true.
C4_RoundTrip ==
    [][ (last_op' = "restart" /\ cache # <<>>) =>
          /\ root_path' = cache[1].last_dir
          /\ output_name' = cache[1].output_name
          /\ style_choice' = cache[1].style
          /\ header_text' = cache[1].header_text
          /\ instructions_picker' = cache[1].instruction_file_path
          /\ \A k \in FlagKeys :
                 cb'[CheckBoxOfKey(k)] = IF k \in DOMAIN cache[1].flags
                                         THEN cache[1].flags[k]
                                         ELSE k = "remove_empty"
          /\ ignore_patterns' = cache[1].ignore_patterns
          /\ ignore_defaults_optout' = SeqToSet(cache[1].ignore_defaults_optout)
          /\ excluded_files_set' = SeqToSet(cache[1].excluded_files) ]_vars

\* The operations of the user that can change the configuration
MutatingOps ==
    { "on_dir_changed", "on_refresh", "on_to_exclude", "on_to_include", "on_add_ignore",
      "on_remove_ignore", "on_style_change", "output_name", "header_text",
      "instructions_picker", "check_box" }

\* C5: after every operation of the user that changes the configuration
\* (directory change, Reset, exclude, include, add_ignore, remove_ignore,
\* option or text change) the persisted snapshot equals the configuration in
\* memory.
C5_SnapshotFollowsMutation ==
    [][ (last_op' \in MutatingOps /\ StateOf(Cur)' # StateOf(Cur)) =>
          cache' = << StateOf(Cur)' >> ]_vars

\* The operations that change the selection model or an option
PreviewOps ==
    { "on_to_exclude", "on_to_include", "on_add_ignore", "on_remove_ignore",
      "on_style_change", "output_name", "header_text", "instructions_picker", "check_box" }

\* C6: after every operation that changes the selection model or an option,
\* with or without a root directory selected, the command preview is the
\* shell-quoted, space-joined argv synthesized from the current state.
C6_PreviewFollowsState ==
    last_op \in PreviewOps => cmd_preview = PreviewOf(BuildCommand(Cur))

(***************************************************************************)
(* Removal of patterns, the end-to-end example and rescans (under Spec)    *)
(***************************************************************************)

\* The patterns of the list at the indices of sel, and the others
PatternsAt(sel) == { ignore_patterns[i] : i \in sel }

PatternsLeft(sel) == { ignore_patterns[i] : i \in (1..Len(ignore_patterns)) \ sel }

\* Some pattern of the set covers the file
Covered(f, patterns) == \E pat \in patterns : MatchesPatterns(f, <<pat>>)

\* C7: after on_remove_ignore removed the patterns R, every discovered file
\* that matched a pattern of R and matches no remaining pattern is out of the
\* exact-exclusion set and, the filter being empty, visible, whether or not
\* it was exactly excluded before; every exactly-excluded file that matched
\* no pattern of R, or matches a remaining pattern, is still exactly
\* excluded.
C7_RemoveIgnoreReleases ==
    [][ \A sel \in SUBSET (1..Len(ignore_patterns_box)) :
          (last_op' = "on_remove_ignore" /\ Cur' = OnRemoveIgnore(Cur, sel)) =>
             /\ \A f \in SeqToSet(all_files') :
                    (Covered(f, PatternsAt(sel)) /\ ~Covered(f, PatternsLeft(sel))) =>
                        /\ f \notin excluded_files_set'
                        /\ filter_input' = "" => f \in SeqToSet(visible_files')
             /\ \A f \in excluded_files_set :
                    (~Covered(f, PatternsAt(sel)) \/ Covered(f, PatternsLeft(sel))) =>
                        f \in excluded_files_set' ]_vars

\* on_remove_ignore has run in /r1 and left only the pattern .git: a.py,
\* which no pattern covers any more, is shown and is not exactly excluded.
C7_Witness ==
    /\ last_op = "on_remove_ignore"
    /\ root_path = "/r1"
    /\ filter_input = ""
    /\ ignore_patterns = <<".git">>
    /\ excluded_files_set = {}
    /\ visible_files = <<"a.py">>

\* C9: from the default state with no cache file, selecting the root that
\* holds a.py, b.png and .git/config gives discovered files without b.png,
\* the pattern list [".git"], the visible files {a.py} and the argv
\* repomix -o repomix_output.md --style markdown --remove-empty-lines
\* --ignore .git.
C9_EndToEnd ==
    [][ ( /\ last_op = "init"
          /\ cache = <<>>
          /\ FilesUnder("/r1") = {"a.py", "b.png", ".git/config"}
          /\ last_op' = "on_dir_changed"
          /\ root_path' = "/r1" ) =>
          /\ SeqToSet(all_files') = {"a.py", ".git/config"}
          /\ ignore_patterns' = <<".git">>
          /\ visible_files' = <<"a.py">>
          /\ BuildCommand(Cur)' = << "repomix", "-o", "repomix_output.md", "--style",
                                     "markdown", "--remove-empty-lines", "--ignore",
                                     ".git" >> ]_vars

\* /r1 has been selected in a frame with the options of __init__: only a.py
\* is shown and the cache holds the snapshot of this first selection.
C9_Witness ==
    /\ last_op = "on_dir_changed"
    /\ root_path = "/r1"
    /\ cb = DefaultCheckBoxes
    /\ output_name = "repomix_output.md"
    /\ ignore_defaults_optout = {}
    /\ ignore_patterns = <<".git">>
    /\ visible_files = <<"a.py">>
    /\ cmd_preview = "repomix -o repomix_output.md --style markdown --remove-empty-lines --ignore .git"

\* The number of entries of q equal to x
Count(q, x) == Cardinality({ i \in 1..Len(q) : q[i] = x })

\* The visible files and the patterns are the same in frame states S and T
SameSelection(S, T) ==
    /\ S.visible_files = T.visible_files
    /\ S.ignore_patterns = T.ignore_patterns

\* C10: the file system being unchanged, a second rescan right after a
\* rescan leaves the visible files and the pattern list as the first one
\* left them, for the rescan of Reset and for the rescan the other handlers
\* make; the auto-add of default ignores appends no name that is already in
\* the pattern list.
C10_RescanIdempotent ==
    /\ SameSelection(OnRefresh(OnRefresh(Cur)), OnRefresh(Cur))
    /\ SameSelection(RescanAndUpdate(RescanAndUpdate(Cur)), RescanAndUpdate(Cur))
    /\ \A d \in SeqToSet(ignore_patterns) :
           Count(EnsureDefaultIgnoresExist(Cur).ignore_patterns, d) = Count(ignore_patterns, d)

\* Reset has rescanned /r1 with .git opted in: the name is in the list once.
C10_Witness ==
    /\ last_op = "on_refresh"
    /\ root_path = "/r1"
    /\ ".git" \notin ignore_defaults_optout
    /\ Count(ignore_patterns, ".git") = 1

(***************************************************************************)
(* The default ignores (under SpecRescan and Spec)                         *)
(***************************************************************************)

\* The strings of the set in ascending order: the one at position i has
\* i - 1 smaller strings in the set.
Ascending(S) ==
    [ i \in 1..Cardinality(S) |->
        CHOOSE x \in S : Cardinality({ y \in S : StrLess(y, x) }) = i - 1 ]

\* The default names a rescan has to append: an entry of the name exists
\* directly under the root, the name is not in the list and is not opted
\* out.
DefaultsDue ==
    { d \in IGNORED_DIRS_DEFAULT :
        /\ \E f \in FilesUnder(root_path) : f = d \/ StartsWith(f, d \o "/")
        /\ \A i \in 1..Len(ignore_patterns) : ignore_patterns[i] # d
        /\ d \notin ignore_defaults_optout }

\* C11: on every rescan with a root selected, a default-ignore name is
\* appended to the pattern list if and only if an entry of that name exists
\* directly under the root, the name is not already in the list and the name
\* is not opted out; the names are appended in sorted order and nothing else
\* in the list is changed.
C11_AutoAddExactly ==
    [][ (root_path # NoRoot /\ last_op' \in {"on_refresh", "_rescan_and_update"}) =>
            ignore_patterns' = ignore_patterns \o Ascending(DefaultsDue) ]_vars

\* Reset has rescanned /r3, which holds .git, dist and node_modules, with
\* dist in the list before: .git and node_modules follow it, in this order.
C11_Witness ==
    /\ last_op = "on_refresh"
    /\ root_path = "/r3"
    /\ ignore_defaults_optout = {}
    /\ ignore_patterns = <<"dist", ".git", "node_modules">>

\* The operations that rescan without the user touching the pattern list
RescanningOps ==
    { "on_dir_changed", "on_refresh", "on_filter", "on_style_change", "output_name",
      "header_text", "instructions_picker", "check_box", "on_to_exclude", "on_to_include" }

\* C12: once on_remove_ignore has removed a default-ignore name and left no
\* copy of it in the list, the name is opted out and absent; no later
\* rescan, Reset, directory, filter or option change, exclude or include puts
\* an opted-out, absent name back; on_add_ignore of a default name appends
\* it at the end of the list and clears its opt-out.
C12_OptOutSticky ==
    [][ /\ last_op' = "on_remove_ignore" =>
              \A sel \in SUBSET (1..Len(ignore_patterns_box)) :
                  Cur' = OnRemoveIgnore(Cur, sel) =>
                      \A d \in (IGNORED_DIRS_DEFAULT \cap PatternsAt(sel)) \ PatternsLeft(sel) :
                          d \in ignore_defaults_optout' /\ d \notin SeqToSet(ignore_patterns')
        /\ last_op' \in RescanningOps =>
              \A d \in ignore_defaults_optout \ SeqToSet(ignore_patterns) :
                  d \in ignore_defaults_optout' /\ d \notin SeqToSet(ignore_patterns')
        /\ last_op' = "on_add_ignore" =>
              \A text \in IgnoreTexts :
                  (Strip(text) \in IGNORED_DIRS_DEFAULT /\ Cur' = OnAddIgnore(Cur, text)) =>
                      /\ ignore_patterns' = Append(ignore_patterns, Strip(text))
                      /\ Strip(text) \notin ignore_defaults_optout' ]_vars

\* .git was removed in /r1 and Reset has rescanned since: the name is still
\* opted out and absent, and the file below .git is shown.
C12_Witness ==
    /\ last_op = "on_refresh"
    /\ root_path = "/r1"
    /\ ".git" \in ignore_defaults_optout
    /\ ignore_patterns = <<>>
    /\ visible_files = <<".git/config", "a.py">>

\* The operations of a running frame that do not remove patterns
KeepingOps == RescanningOps \cup { "on_add_ignore" }

\* C13: within the life of a frame, on_add_ignore with a text that is not
\* blank after trimming makes the list the old list followed by the trimmed
\* text, whether or not an equal entry is present; on_remove_ignore makes it
\* the old list without the selected positions; every other operation keeps
\* the old list as a prefix of the new one.
C13_NeverDeduplicated ==
    [][ /\ last_op' = "on_add_ignore" =>
              \A text \in IgnoreTexts :
                  (Strip(text) # "" /\ Cur' = OnAddIgnore(Cur, text)) =>
                      ignore_patterns' = ignore_patterns \o <<Strip(text)>>
        /\ last_op' = "on_remove_ignore" =>
              \A sel \in SUBSET (1..Len(ignore_patterns_box)) :
                  Cur' = OnRemoveIgnore(Cur, sel) =>
                      ignore_patterns' = WithoutIndices(ignore_patterns, sel, 1)
        /\ last_op' \in KeepingOps =>
              /\ Len(ignore_patterns') >= Len(ignore_patterns)
              /\ SubSeq(ignore_patterns', 1, Len(ignore_patterns)) = ignore_patterns ]_vars

\* .git was in the list and on_add_ignore of .git has added a second copy.
C13_Witness ==
    /\ last_op = "on_add_ignore"
    /\ ignore_patterns = <<".git", ".git">>
    /\ ignore_patterns_box = <<".git", ".git">>

(***************************************************************************)
(* The run (under SpecRun and SpecRunFair)                                 *)
(***************************************************************************)

\* C14: an on_run with no directory selected shows the error box and
\* changes nothing else: no thread is started, no call is posted, and the
\* frame state, the log and the cache file stay as they were.
C14_NoRootRunOnlyNotifies ==
    [][ (root_path = NoRoot /\ last_op' = "on_run") =>
            /\ notices' = Append(notices, NoRootBox)
            /\ UNCHANGED <<frameVars, log, threads, call_after>> ]_vars

\* on_run was requested in a frame without a directory: the box is shown,
\* the log is the one of the construction and no thread exists.
C14_Witness ==
    /\ last_op = "on_run"
    /\ root_path = NoRoot
    /\ notices = <<NoRootBox>>
    /\ log = <<"[ts] Command updated\n">>
    /\ threads = <<>>

\* The message boxes shown for run i
NoticesOf(i) == { k \in 1..Len(notices) : notices[k].run = i }

\* Line 468
ExitCodeText(returncode) == "\n>>> Exit code: " \o ToString(returncode) \o "\n"

\* The box shown for run i tells what happened to it, and the output and
\* the exit code of a process that ran have reached the log before it
NoticeTellsOutcome(i) ==
    \A k \in NoticesOf(i) :
        /\ notices[k].message = "Done! Output written." <=> threads[i].returncode = 0
        /\ notices[k].message = "repomix exited with non-zero status. See log." <=>
               threads[i].returncode \in ExitCodes \ {0}
        /\ notices[k].message = "Executable 'repomix' not found. Install: pip install repomix" <=>
               threads[i].raised = "FileNotFoundError"
        /\ notices[k].message = "Launch error: " \o LaunchErrorText <=>
               threads[i].raised = "Exception"
        /\ threads[i].raised = "" =>
               threads[i].appended = << threads[i].out, ExitCodeText(threads[i].returncode) >>

C16_LaunchesAsLogged ==
    \A i \in 1..Len(threads) :
        threads[i].launches > 0 => threads[i].cwd = threads[i].logged_cwd

(***************************************************************************)
(* Loading a cache file at fault (under SpecRestore)                       *)
(***************************************************************************)

\* C17: a start that fails to load the cache file leaves the frame as a
\* start without a cache file leaves it: every field at its default.
C17_FailedLoadLeavesDefaults ==
    [][ (Len(cache) = 2 /\ last_op' = "restart") =>
            [ Cur EXCEPT !.cache = <<>> ]' = Construct(<<>>, "") ]_vars

(***************************************************************************)
(* Rediscovery and the frame of each operation (under Spec)                *)
(***************************************************************************)

\* C18: after on_dir_changed and after Reset with a directory selected, the
\* discovered files are those of discover_files on the directory now
\* selected, the exact-exclusion set is empty, and the pattern list is the old
\* list followed by default-ignore names only.
C18_RootChangeRediscovers ==
    [][ (last_op' \in {"on_dir_changed", "on_refresh"} /\ root_path' # NoRoot) =>
            /\ all_files' = DiscoverFiles(root_path')
            /\ excluded_files_set' = {}
            /\ Len(ignore_patterns') >= Len(ignore_patterns)
            /\ SubSeq(ignore_patterns', 1, Len(ignore_patterns)) = ignore_patterns
            /\ \A i \in (Len(ignore_patterns) + 1)..Len(ignore_patterns') :
                   ignore_patterns'[i] \in IGNORED_DIRS_DEFAULT ]_vars

\* The directory was changed from /r1 to /r2: .git is kept, dist appended,
\* the files of /r2 discovered and nothing exactly excluded.
C18_Witness ==
    /\ last_op = "on_dir_changed"
    /\ root_path = "/r2"
    /\ ignore_patterns = <<".git", "dist">>
    /\ all_files = <<"a.py", "dist/x.js">>
    /\ excluded_files_set = {}

\* C19: the displayed exclusion list holds exactly the exactly-excluded paths
\* that no current pattern covers, shares no path with the visible list, and
\* no path of either list matches a current pattern; every exactly-excluded
\* path, displayed or hidden, is in the --ignore argument of the command.
C19_DisplayedLists ==
    /\ SeqToSet(excluded_files) =
           { f \in excluded_files_set : ~MatchesPatterns(f, ignore_patterns) }
    /\ SeqToSet(excluded_files) \cap SeqToSet(visible_files) = {}
    /\ \A f \in SeqToSet(excluded_files) \cup SeqToSet(visible_files) :
           ~MatchesPatterns(f, ignore_patterns)
    /\ excluded_files_set # {} =>
           /\ Len(BuildCommand(Cur)) >= 2
           /\ SubSeq(BuildCommand(Cur), Len(BuildCommand(Cur)) - 1, Len(BuildCommand(Cur))) =
                  <<"--ignore", Join(ignore_patterns \o ExcludedInOrder, ",")>>

\* a.py is exactly excluded and the pattern *.py, added later, hides it from
\* the displayed exclusion list.
C19_Witness ==
    /\ excluded_files_set = {"a.py"}
    /\ excluded_files = <<>>
    /\ "*.py" \in SeqToSet(ignore_patterns)
    /\ root_path # NoRoot

\* The filter and option changes
OptionOps ==
    { "on_filter", "on_style_change", "output_name", "header_text", "instructions_picker",
      "check_box" }

\* C20: with a directory selected, a filter or option change leaves the
\* exact-exclusion set, the pattern list and the opt-out set as they were;
\* on_to_exclude and on_to_include leave the pattern list, the opt-out set,
\* the directory and the discovered files as they were.
C20_FrameOfRescans ==
    [][ /\ (root_path # NoRoot /\ last_op' \in OptionOps) =>
               UNCHANGED <<excluded_files_set, ignore_patterns, ignore_defaults_optout>>
        /\ (root_path # NoRoot /\ last_op' \in {"on_to_exclude", "on_to_include"}) =>
               UNCHANGED <<ignore_patterns, ignore_defaults_optout, root_path, all_files>> ]_vars

\* A check box was clicked while a.py was exactly excluded and .git opted out.
C20_Witness ==
    /\ last_op = "check_box"
    /\ root_path = "/r1"
    /\ excluded_files_set = {"a.py"}
    /\ ignore_defaults_optout = {".git"}

(***************************************************************************)
(* The cache file across a start (under Spec)                              *)
(***************************************************************************)

\* C21: a start without an argument on a cache file leaves the content of
\* the file as it was before the start.
C21_StartKeepsCacheFile ==
    [][ (last_op' = "restart" /\ cache # <<>>) => cache' = cache ]_vars

(***************************************************************************)
(* Exclude, then include (under Spec)                                      *)
(***************************************************************************)

\* The frame after on_to_exclude of the visible files at sel
Excluded(sel) == OnToExclude(Cur, sel)

\* The positions, in the exclusion list displayed after that, of the files
\* just excluded
BackSelection(sel) ==
    { j \in 1..Len(Excluded(sel).excluded_files) :
        Excluded(sel).excluded_files[j] \in { visible_files[i] : i \in sel } }

\* The frame after on_to_exclude of sel and on_to_include of the same files
ExcludedAndIncluded(sel) == OnToInclude(Excluded(sel), BackSelection(sel))

\* C22: from every state, excluding a non-empty selection of visible files
\* and then including exactly those files gives back the exact-exclusion
\* set, the visible list, the argv and the content of the cache file of
\* before the exclude.
C22_ExcludeIncludeInverse ==
    \A sel \in (SUBSET (1..Len(visible_files))) \ {{}} :
        /\ ExcludedAndIncluded(sel).excluded_files_set = excluded_files_set
        /\ ExcludedAndIncluded(sel).visible_files = visible_files
        /\ BuildCommand(ExcludedAndIncluded(sel)) = BuildCommand(Cur)
        /\ ExcludedAndIncluded(sel).cache = cache

====
